---- MODULE Spec2Model ----
(***************************************************************************)
(* Model of the ChatLogger plugin (src/main.py): the group filter, the     *)
(* record writer (_save_chat_record), the two event handlers and the       *)
(* plugin lifecycle (initialize / _init_database / destroy).               *)
(*                                                                         *)
(* Python values are modelled as follows.                                  *)
(*   - message texts are sequences of one-character strings, so that       *)
(*     str.strip() and concatenation are computed, not assumed;            *)
(*   - identifiers arrive as integers and are rendered by str(), modelled  *)
(*     by ToStr; the configured lists hold strings;                        *)
(*   - Optional[T] is None == <<>> or Some(v) == <<v>>.                    *)
(***************************************************************************)
EXTENDS Integers, Sequences, FiniteSets, TLC

(* ---------------- bounds of the model ---------------- *)
MaxGroup == 2
MaxListed == 1
MaxTasks == 2
MaxPools == 2
MaxDisposals == 2

(* ---------------- Python value helpers ---------------- *)
None == <<>>
Some(v) == <<v>>

Digit(n) ==
  CASE n = 0 -> "0" [] n = 1 -> "1" [] n = 2 -> "2" [] n = 3 -> "3" [] n = 4 -> "4"
    [] n = 5 -> "5" [] n = 6 -> "6" [] n = 7 -> "7" [] n = 8 -> "8" [] OTHER -> "9"

RECURSIVE ToStr(_)
ToStr(n) == IF n < 10 THEN Digit(n) ELSE ToStr(n \div 10) \o Digit(n % 10)

Whitespace == {" "}

\* a strip() that is forgotten: the text is tested as it came
StripNothing(s) == s

RECURSIVE LStrip(_)
LStrip(s) == IF s # <<>> /\ Head(s) \in Whitespace THEN LStrip(Tail(s)) ELSE s

RECURSIVE RStrip(_)
RStrip(s) ==
  IF s # <<>> /\ s[Len(s)] \in Whitespace THEN RStrip(SubSeq(s, 1, Len(s) - 1)) ELSE s

Strip(s) == RStrip(LStrip(s))

(* ---------------- input domains ---------------- *)
GroupIds == 1..MaxGroup
ListedStrs == {ToStr(g) : g \in 1..MaxListed}
FilterIds == 0..MaxGroup
FilterStrs == {ToStr(g) : g \in FilterIds}
Texts == {<<>>, <<" ">>, <<" ", "a">>}
Prefixes == {None, Some(<<"p", " ">>)}
Names == {None, Some("Alice")}
SenderId == 7
BotAccountId == 9

(* ---------------- state ---------------- *)
VARIABLES
  engine,               \* self.engine: 0 is None, otherwise the id of the pool it holds
  session_factory,      \* self.session_factory: 0 is None, otherwise the pool it is bound to
  bot_nickname,         \* self.bot_nickname
  include_bot_messages, \* self.include_bot_messages
  group_whitelist,      \* self.group_whitelist (membership is all the code uses)
  group_blacklist,      \* self.group_blacklist
  registered,           \* the two handlers are registered with the host's manifest loader
  tables,               \* number of group_msg tables in the storage target
  store,                \* rows of group_msg, in commit order
  next_id,              \* next value of the autoincrement primary key
  disposed,             \* disposed[p]: how many times pool p was disposed; Len = pools created
  life,                 \* the lifecycle call in progress and how the last one ended:
                        \* its result, its log level, the startup step that failed,
                        \* and how many initialize calls have returned normally
  tasks,                \* the handler invocations so far, in dispatch order
  sessions,             \* invocations holding an open unit-of-work (AsyncSession)
  flt                   \* a stand-alone call of _should_log_group: argument and result

vars == <<engine, session_factory, bot_nickname, include_bot_messages, group_whitelist,
          group_blacklist, registered, tables, store, next_id, disposed, life, tasks,
          sessions, flt>>

cfgVars == <<bot_nickname, include_bot_messages, group_whitelist, group_blacklist>>
dbVars == <<tables, store, next_id>>
lifeVars == <<engine, session_factory, registered, disposed, life>>

(* ---------------- events handed over by the host ---------------- *)
NoEvent ==
  [kind |-> "none", launcher_type |-> "group", launcher_id |-> 0, isGroupMessage |-> FALSE,
   text |-> <<>>, prefix |-> None, name |-> None, group_id |-> 0, malformed |-> FALSE]

\* GroupMessageReceived: launcher_id, whether query.message_event is a GroupMessage, the
\* rendering of its message_chain, sender.get_name() and group.id; malformed: the sender
\* raises when asked for its name.  A payload that is no GroupMessage, or one the
\* handler drops for its text, carries no sender or group of interest: those fields
\* stay at their defaults.
GroupMessageEvents ==
  {e \in [kind : {"in"}, launcher_type : {"group"}, launcher_id : GroupIds,
          isGroupMessage : BOOLEAN, text : Texts, prefix : {None}, name : Names,
          group_id : GroupIds, malformed : BOOLEAN] :
     (~e.isGroupMessage \/ Strip(e.text) = <<>> \/ e.malformed) =>
        (e.name = None /\ e.group_id = e.launcher_id
           /\ (e.malformed => e.isGroupMessage /\ Strip(e.text) # <<>>))}

\* NormalMessageResponded: launcher_type, launcher_id, prefix, response_text; malformed:
\* query.adapter has no bot_account_id.  A response outside a group carries no prefix.
ResponseEvents ==
  {e \in [kind : {"bot"}, launcher_type : {"group", "person"}, launcher_id : GroupIds,
          isGroupMessage : {FALSE}, text : Texts, prefix : Prefixes, name : {None},
          group_id : {0}, malformed : BOOLEAN] :
     /\ e.launcher_type # "group" => (e.prefix = None /\ ~e.malformed)
     /\ e.malformed => (e.prefix # None \/ Strip(e.text) # <<>>)}

NoArgs == [user_id |-> "", nickname |-> None, message |-> <<>>, group_id |-> ""]

(* ---------------- ChatLoggerPlugin.__init__ ---------------- *)
Init ==
  /\ engine = 0
  /\ session_factory = 0
  /\ bot_nickname = "Self"
  /\ include_bot_messages = TRUE
  /\ group_whitelist = {}
  /\ group_blacklist = {}
  /\ registered = FALSE
  /\ tables = 0
  /\ store = <<>>
  /\ next_id = 1
  /\ disposed = <<>>
  /\ life = [pc |-> "idle", op |-> "none", result |-> "none", log |-> "none",
             failed |-> "none", starts |-> 0]
  /\ tasks = <<>>
  /\ sessions = {}
  /\ flt = [g |-> 0, called |-> FALSE, ret |-> FALSE]

(* ---------------- Group Filter ---------------- *)
\* the whitelist test without its emptiness guard
should_log_group_strict_whitelist(group_id) ==
  LET group_id_str == ToStr(group_id) IN
  IF group_id_str \notin group_whitelist THEN FALSE
  ELSE IF group_id_str \in group_blacklist THEN FALSE
  ELSE TRUE

\* a whitelisted group accepted before the blacklist is looked at
should_log_group_whitelist_first(group_id) ==
  LET group_id_str == ToStr(group_id) IN
  IF group_id_str \in group_whitelist THEN TRUE
  ELSE IF group_whitelist # {} THEN FALSE
  ELSE IF group_id_str \in group_blacklist THEN FALSE
  ELSE TRUE

_should_log_group(group_id) ==
  LET group_id_str == ToStr(group_id) IN
  IF group_whitelist # {} /\ group_id_str \notin group_whitelist THEN FALSE
  ELSE IF group_id_str \in group_blacklist THEN FALSE
  ELSE TRUE

(* ---------------- Record Writer and Event Handlers ---------------- *)
\* One handler invocation: pc is where it stands ("commit": awaiting session.commit(),
\* "close": leaving `async with`, "done": returned or raised to the host); ev and snap
\* are the event and the configuration it was dispatched with; args are the arguments
\* of _save_chat_record when it was called (appended); commit, log and outcome record
\* what happened.
Task(pc, e, snap, args, appended, commit, log, outcome) ==
  [pc |-> pc, ev |-> e, snap |-> snap, args |-> args, appended |-> appended,
   commit |-> commit, log |-> log, outcome |-> outcome]

\* what a handler invocation finds when it is dispatched: the configuration, whether
\* the writer is initialized, and whether an earlier write has already failed
Snapshot ==
  [include |-> include_bot_messages, whitelist |-> group_whitelist,
   blacklist |-> group_blacklist, bot_nickname |-> bot_nickname,
   initialized |-> (session_factory # 0),
   afterFailure |-> (\E u \in 1..Len(tasks) : tasks[u].commit = "fail")]

\* a plain `return` before any await
Return(e) ==
  /\ tasks' = Append(tasks, Task("done", e, Snapshot, NoArgs, FALSE, "none", "none",
                                 "returned"))
  /\ UNCHANGED sessions

\* a handler without its try/except: the error reaches the host
RaiseToHost(e) ==
  /\ tasks' = Append(tasks, Task("done", e, Snapshot, NoArgs, FALSE, "none", "none",
                                 "raised"))
  /\ UNCHANGED sessions

\* `except Exception` at the handler boundary: the error is logged and swallowed
CatchInHandler(e) ==
  /\ tasks' = Append(tasks, Task("done", e, Snapshot, NoArgs, FALSE, "none", "error",
                                 "returned"))
  /\ UNCHANGED sessions

\* _save_chat_record without the `if not self.session_factory` check
_save_chat_record_unchecked(e, user_id, nickname, message, group_id) ==
  LET args == [user_id |-> user_id, nickname |-> nickname, message |-> message,
               group_id |-> group_id] IN
  /\ tasks' = Append(tasks, Task("commit", e, Snapshot, args, TRUE, "none", "none",
                                 "none"))
  /\ sessions' = sessions \cup {Len(tasks) + 1}

\* _save_chat_record up to its first suspension: the uninitialized check, then
\* `async with self.session_factory() as session`, ChatRecord(...) and session.add
_save_chat_record(e, user_id, nickname, message, group_id) ==
  LET args == [user_id |-> user_id, nickname |-> nickname, message |-> message,
               group_id |-> group_id] IN
  IF session_factory = 0
    THEN /\ tasks' = Append(tasks, Task("done", e, Snapshot, args, TRUE, "none", "warning",
                                        "returned"))
         /\ UNCHANGED sessions
    ELSE /\ tasks' = Append(tasks, Task("commit", e, Snapshot, args, TRUE, "none", "none",
                                        "none"))
         /\ sessions' = sessions \cup {Len(tasks) + 1}

\* the response text put before the prefix
FullResponseBodyFirst(e) ==
  LET withBody == IF e.text # <<>> THEN <<>> \o e.text ELSE <<>>
  IN  IF e.prefix # None /\ e.prefix[1] # <<>> THEN withBody \o e.prefix[1] ELSE withBody

\* full_response of on_normal_message_responded
FullResponse(e) ==
  LET withPrefix == IF e.prefix # None /\ e.prefix[1] # <<>> THEN <<>> \o e.prefix[1] ELSE <<>>
  IN  IF e.text # <<>> THEN withPrefix \o e.text ELSE withPrefix

\* the incoming handler without the isinstance(GroupMessage) test
on_group_message_received_any_scope(e) ==
  /\ Len(tasks) < MaxTasks
  /\ e \in GroupMessageEvents
  /\ IF ~_should_log_group(e.launcher_id) THEN Return(e)
     ELSE IF Strip(e.text) = <<>> THEN Return(e)
     ELSE IF e.malformed THEN CatchInHandler(e)
     ELSE _save_chat_record(e, ToStr(SenderId), e.name, e.text, ToStr(e.group_id))
  /\ UNCHANGED <<cfgVars, dbVars, lifeVars, flt>>

on_group_message_received(e) ==
  /\ Len(tasks) < MaxTasks
  /\ e \in GroupMessageEvents
  /\ IF ~_should_log_group(e.launcher_id) THEN Return(e)
     ELSE IF ~e.isGroupMessage THEN Return(e)
     ELSE IF Strip(e.text) = <<>> THEN Return(e)
     ELSE IF e.malformed THEN CatchInHandler(e)
     ELSE _save_chat_record(e, ToStr(SenderId), e.name, e.text, ToStr(e.group_id))
  /\ UNCHANGED <<cfgVars, dbVars, lifeVars, flt>>

\* the response handler without the include_bot_messages test
on_normal_message_responded_ungated(e) ==
  /\ Len(tasks) < MaxTasks
  /\ e \in ResponseEvents
  /\ IF e.launcher_type # "group" THEN Return(e)
     ELSE IF ~_should_log_group(e.launcher_id) THEN Return(e)
     ELSE IF Strip(FullResponse(e)) = <<>> THEN Return(e)
     ELSE IF e.malformed THEN CatchInHandler(e)
     ELSE _save_chat_record(e, ToStr(BotAccountId), Some(bot_nickname), FullResponse(e),
                            ToStr(e.launcher_id))
  /\ UNCHANGED <<cfgVars, dbVars, lifeVars, flt>>

on_normal_message_responded(e) ==
  /\ Len(tasks) < MaxTasks
  /\ e \in ResponseEvents
  /\ IF ~include_bot_messages THEN Return(e)
     ELSE IF e.launcher_type # "group" THEN Return(e)
     ELSE IF ~_should_log_group(e.launcher_id) THEN Return(e)
     ELSE IF Strip(FullResponse(e)) = <<>> THEN Return(e)
     ELSE IF e.malformed THEN CatchInHandler(e)
     ELSE _save_chat_record(e, ToStr(BotAccountId), Some(bot_nickname), FullResponse(e),
                            ToStr(e.launcher_id))
  /\ UNCHANGED <<cfgVars, dbVars, lifeVars, flt>>

\* a ChatRecord built with user_id and group_id exchanged
NewRowSwapped(t, args) ==
  [id |-> next_id, user_id |-> args.group_id, nickname |-> args.nickname,
   message |-> args.message, group_id |-> args.user_id, by |-> t]

\* the row an INSERT of the pending ChatRecord produces (by: the invocation it belongs to)
NewRow(t, args) ==
  [id |-> next_id, user_id |-> args.user_id, nickname |-> args.nickname,
   message |-> args.message, group_id |-> args.group_id, by |-> t]

\* a commit on a session shared by the appends in flight: it also flushes the record
\* another append has added and not yet committed
CommitSharedSession(t, ok) ==
  /\ t \in 1..Len(tasks)
  /\ tasks[t].pc = "commit"
  /\ IF ok /\ tables > 0
       THEN LET others == {u \in 1..Len(tasks) : u # t /\ tasks[u].pc = "commit"}
                u == CHOOSE x \in others : TRUE
            IN  /\ store' = IF others = {}
                               THEN Append(store, NewRow(t, tasks[t].args))
                               ELSE store \o <<NewRow(t, tasks[t].args),
                                               [NewRow(u, tasks[u].args)
                                                  EXCEPT !.id = next_id + 1]>>
                /\ next_id' = next_id + (IF others = {} THEN 1 ELSE 2)
                /\ tasks' = [tasks EXCEPT ![t].pc = "close", ![t].commit = "ok",
                                          ![t].log = "debug"]
       ELSE /\ tasks' = [tasks EXCEPT ![t].pc = "close", ![t].commit = "fail"]
            /\ UNCHANGED <<store, next_id>>
  /\ UNCHANGED <<cfgVars, tables, lifeVars, sessions, flt>>

\* a commit that inserts the pending record twice
CommitTwice(t, ok) ==
  /\ t \in 1..Len(tasks)
  /\ tasks[t].pc = "commit"
  /\ IF ok /\ tables > 0
       THEN /\ store' = Append(Append(store, NewRow(t, tasks[t].args)),
                               [NewRow(t, tasks[t].args) EXCEPT !.id = next_id + 1])
            /\ next_id' = next_id + 2
            /\ tasks' = [tasks EXCEPT ![t].pc = "close", ![t].commit = "ok",
                                      ![t].log = "debug"]
       ELSE /\ tasks' = [tasks EXCEPT ![t].pc = "close", ![t].commit = "fail"]
            /\ UNCHANGED <<store, next_id>>
  /\ UNCHANGED <<cfgVars, tables, lifeVars, sessions, flt>>

\* a commit whose failure leaves the row behind
CommitNoRollback(t, ok) ==
  /\ t \in 1..Len(tasks)
  /\ tasks[t].pc = "commit"
  /\ store' = IF tables > 0 THEN Append(store, NewRow(t, tasks[t].args)) ELSE store
  /\ next_id' = IF tables > 0 THEN next_id + 1 ELSE next_id
  /\ tasks' = IF ok /\ tables > 0
               THEN [tasks EXCEPT ![t].pc = "close", ![t].commit = "ok", ![t].log = "debug"]
               ELSE [tasks EXCEPT ![t].pc = "close", ![t].commit = "fail"]
  /\ UNCHANGED <<cfgVars, tables, lifeVars, sessions, flt>>

\* `await session.commit()` resolves: the backend accepts the INSERT (ok, and the table
\* exists) and the debug line is logged, or it raises
Commit(t, ok) ==
  /\ t \in 1..Len(tasks)
  /\ tasks[t].pc = "commit"
  /\ IF ok /\ tables > 0
       THEN /\ store' = Append(store, NewRow(t, tasks[t].args))
            /\ next_id' = next_id + 1
            /\ tasks' = [tasks EXCEPT ![t].pc = "close", ![t].commit = "ok",
                                      ![t].log = "debug"]
       ELSE /\ tasks' = [tasks EXCEPT ![t].pc = "close", ![t].commit = "fail"]
            /\ UNCHANGED <<store, next_id>>
  /\ UNCHANGED <<cfgVars, tables, lifeVars, sessions, flt>>

\* a session that is closed only after a successful commit
CloseSessionOnSuccessOnly(t) ==
  /\ t \in 1..Len(tasks)
  /\ tasks[t].pc = "close"
  /\ sessions' = IF tasks[t].commit = "ok" THEN sessions \ {t} ELSE sessions
  /\ tasks' = [tasks EXCEPT ![t].pc = "done", ![t].outcome = "returned",
                            ![t].log = IF tasks[t].commit = "fail" THEN "error" ELSE @]
  /\ UNCHANGED <<cfgVars, dbVars, lifeVars, flt>>

\* leaving `async with`: the session is closed on either path; a failed commit is then
\* caught by `except Exception` in _save_chat_record and logged; the handler returns
CloseSession(t) ==
  /\ t \in 1..Len(tasks)
  /\ tasks[t].pc = "close"
  /\ sessions' = sessions \ {t}
  /\ tasks' = [tasks EXCEPT ![t].pc = "done", ![t].outcome = "returned",
                            ![t].log = IF tasks[t].commit = "fail" THEN "error" ELSE @]
  /\ UNCHANGED <<cfgVars, dbVars, lifeVars, flt>>

(* ---------------- Lifecycle Manager ---------------- *)
\* self.config: absent (None, every key falls back to the current field) or a full mapping
Configs ==
  {None} \cup
  {Some([bot_nickname |-> "Bot", include_bot_messages |-> i, group_whitelist |-> w,
         group_blacklist |-> b]) : i \in BOOLEAN, w \in SUBSET ListedStrs,
         b \in SUBSET ListedStrs}

StartupSteps == <<"register", "mkdir", "config", "engine", "factory">>

\* position of a step in initialize; a failure at step k means the steps before k ran
StepNo(step) == CHOOSE k \in 1..(Len(StartupSteps) + 1) :
                  IF k <= Len(StartupSteps) THEN StartupSteps[k] = step ELSE step = "none"

\* initialize up to `async with self.engine.begin()`: handler registration, mkdir,
\* configuration, create_async_engine, async_sessionmaker; failAt names the step that
\* raises ("none": all succeed and create_all is awaited)
initialize(config, hasLoader, failAt) ==
  LET ran(step) == StepNo(step) < StepNo(failAt) IN
  /\ life.pc = "idle"
  /\ Len(disposed) < MaxPools
  /\ config \in Configs
  /\ registered' = IF ran("register") THEN (registered \/ hasLoader) ELSE registered
  /\ IF ran("config") /\ config # None
       THEN /\ bot_nickname' = config[1].bot_nickname
            /\ include_bot_messages' = config[1].include_bot_messages
            /\ group_whitelist' = config[1].group_whitelist
            /\ group_blacklist' = config[1].group_blacklist
       ELSE UNCHANGED cfgVars
  /\ IF ran("engine")
       THEN /\ disposed' = Append(disposed, 0)
            /\ engine' = Len(disposed) + 1
       ELSE UNCHANGED <<disposed, engine>>
  /\ session_factory' = IF ran("factory") THEN Len(disposed) + 1 ELSE session_factory
  /\ life' = IF failAt = "none"
               THEN [pc |-> "create_all", op |-> "initialize", result |-> "none",
                     log |-> "none", failed |-> "none", starts |-> life.starts]
               ELSE [pc |-> "idle", op |-> "initialize", result |-> "raised",
                     log |-> "error", failed |-> failAt, starts |-> life.starts]
  /\ UNCHANGED <<dbVars, tasks, sessions, flt>>

\* create_all whose error is logged and then swallowed
_init_database_create_all_swallowed(ok) ==
  /\ life.pc = "create_all"
  /\ IF ok
       THEN /\ tables' = IF tables = 0 THEN 1 ELSE tables
            /\ life' = [pc |-> "idle", op |-> "initialize", result |-> "returned",
                        log |-> "info", failed |-> "none", starts |-> life.starts + 1]
       ELSE /\ UNCHANGED tables
            /\ life' = [pc |-> "idle", op |-> "initialize", result |-> "returned",
                        log |-> "error", failed |-> "create_all",
                        starts |-> life.starts + 1]
  /\ UNCHANGED <<cfgVars, store, next_id, engine, session_factory, registered, disposed,
                 tasks, sessions, flt>>

\* create_all that drops the table before creating it
_init_database_create_all_recreated(ok) ==
  /\ life.pc = "create_all"
  /\ IF ok
       THEN /\ tables' = 1
            /\ store' = <<>>
            /\ next_id' = 1
            /\ life' = [pc |-> "idle", op |-> "initialize", result |-> "returned",
                        log |-> "info", failed |-> "none", starts |-> life.starts + 1]
       ELSE /\ UNCHANGED <<tables, store, next_id>>
            /\ life' = [pc |-> "idle", op |-> "initialize", result |-> "raised",
                        log |-> "error", failed |-> "create_all", starts |-> life.starts]
  /\ UNCHANGED <<cfgVars, engine, session_factory, registered, disposed,
                 tasks, sessions, flt>>

\* Base.metadata.create_all resolves: CREATE TABLE IF NOT EXISTS, or an error that
\* _init_database and initialize log and re-raise
_init_database_create_all(ok) ==
  /\ life.pc = "create_all"
  /\ IF ok
       THEN /\ tables' = IF tables = 0 THEN 1 ELSE tables
            /\ life' = [pc |-> "idle", op |-> "initialize", result |-> "returned",
                        log |-> "info", failed |-> "none", starts |-> life.starts + 1]
       ELSE /\ UNCHANGED tables
            /\ life' = [pc |-> "idle", op |-> "initialize", result |-> "raised",
                        log |-> "error", failed |-> "create_all", starts |-> life.starts]
  /\ UNCHANGED <<cfgVars, store, next_id, engine, session_factory, registered, disposed,
                 tasks, sessions, flt>>

\* destroy: dispose the engine when there is one; a failing dispose is logged, not raised
destroy(ok) ==
  /\ life.pc = "idle"
  /\ IF engine # 0
       THEN /\ disposed[engine] < MaxDisposals
            /\ disposed' = IF ok THEN [disposed EXCEPT ![engine] = @ + 1] ELSE disposed
       ELSE UNCHANGED disposed
  /\ life' = [pc |-> "idle", op |-> "destroy", result |-> "returned",
              log |-> IF engine = 0 THEN "none" ELSE IF ok THEN "info" ELSE "error",
              failed |-> "none", starts |-> life.starts]
  /\ UNCHANGED <<cfgVars, dbVars, engine, session_factory, registered, tasks, sessions,
                 flt>>

(* ---------------- specification ---------------- *)
Next ==
  \/ \E e \in GroupMessageEvents : on_group_message_received(e)
  \/ \E e \in ResponseEvents : on_normal_message_responded(e)
  \/ \E t \in 1..MaxTasks, ok \in BOOLEAN : Commit(t, ok)
  \/ \E t \in 1..MaxTasks : CloseSession(t)
  \/ \E c \in Configs, hasLoader \in BOOLEAN,
        failAt \in {"none", "register", "mkdir", "config", "engine", "factory"} :
          initialize(c, hasLoader, failAt)
  \/ \E ok \in BOOLEAN : _init_database_create_all(ok)
  \/ \E ok \in BOOLEAN : destroy(ok)

Spec == Init /\ [][Next]_vars

(* ---------------- the handlers after startup ---------------- *)
\* The plugin once the host has run initialize to its end, in each way it can end:
\* reached is the last startup step that ran ("config": the engine could not be built;
\* "engine": the session factory could not; "factory": create_all failed;
\* "create_all": initialize returned).  These are states Spec reaches by initialize
\* and _init_database_create_all.
InitStarted ==
  \E c \in Configs, reached \in {"config", "engine", "factory", "create_all"} :
    /\ IF c = None
         THEN /\ bot_nickname = "Self"
              /\ include_bot_messages = TRUE
              /\ group_whitelist = {}
              /\ group_blacklist = {}
         ELSE /\ bot_nickname = c[1].bot_nickname
              /\ include_bot_messages = c[1].include_bot_messages
              /\ group_whitelist = c[1].group_whitelist
              /\ group_blacklist = c[1].group_blacklist
    /\ engine = IF reached = "config" THEN 0 ELSE 1
    /\ disposed = IF reached = "config" THEN <<>> ELSE <<0>>
    /\ session_factory = IF reached \in {"factory", "create_all"} THEN 1 ELSE 0
    /\ tables = IF reached = "create_all" THEN 1 ELSE 0
    /\ life = [pc |-> "idle", op |-> "initialize",
               result |-> IF reached = "create_all" THEN "returned" ELSE "raised",
               log |-> IF reached = "create_all" THEN "info" ELSE "error",
               failed |-> CASE reached = "config" -> "engine"
                            [] reached = "engine" -> "factory"
                            [] reached = "factory" -> "create_all"
                            [] OTHER -> "none",
               starts |-> IF reached = "create_all" THEN 1 ELSE 0]
    /\ registered = TRUE
    /\ store = <<>>
    /\ next_id = 1
    /\ tasks = <<>>
    /\ sessions = {}
    /\ flt = [g |-> 0, called |-> FALSE, ret |-> FALSE]

NextHandlers ==
  \/ \E e \in GroupMessageEvents : on_group_message_received(e)
  \/ \E e \in ResponseEvents : on_normal_message_responded(e)
  \/ \E t \in 1..MaxTasks, ok \in BOOLEAN : Commit(t, ok)
  \/ \E t \in 1..MaxTasks : CloseSession(t)
  \/ \E ok \in BOOLEAN : destroy(ok)

SpecHandlers == InitStarted /\ [][NextHandlers]_vars

(* ---------------- the lifecycle on its own ---------------- *)
\* what the storage target may hold when the plugin is constructed: nothing, the
\* group_msg table left by an earlier run, or that table with a row in it
StoredBefore ==
  {<<>>, <<[id |-> 1, user_id |-> ToStr(SenderId), nickname |-> Some("Alice"),
            message |-> <<" ", "a">>, group_id |-> ToStr(1), by |-> 0]>>}

InitLifecycle ==
  /\ engine = 0
  /\ session_factory = 0
  /\ bot_nickname = "Self"
  /\ include_bot_messages = TRUE
  /\ group_whitelist = {}
  /\ group_blacklist = {}
  /\ registered = FALSE
  /\ tables \in {0, 1}
  /\ store \in StoredBefore
  /\ store # <<>> => tables = 1
  /\ next_id = Len(store) + 1
  /\ disposed = <<>>
  /\ life = [pc |-> "idle", op |-> "none", result |-> "none", log |-> "none",
             failed |-> "none", starts |-> 0]
  /\ tasks = <<>>
  /\ sessions = {}
  /\ flt = [g |-> 0, called |-> FALSE, ret |-> FALSE]

NextLifecycle ==
  \/ \E c \in Configs, hasLoader \in BOOLEAN,
        failAt \in {"none", "register", "mkdir", "config", "engine", "factory"} :
          initialize(c, hasLoader, failAt)
  \/ \E ok \in BOOLEAN : _init_database_create_all(ok)
  \/ \E ok \in BOOLEAN : destroy(ok)

SpecLifecycle == InitLifecycle /\ [][NextLifecycle]_vars

(* ---------------- the group filter on its own ---------------- *)
\* every group id against every pair of configured lists; the rest is as constructed
InitFilter ==
  /\ group_whitelist \in SUBSET FilterStrs
  /\ group_blacklist \in SUBSET FilterStrs
  /\ flt \in [g : FilterIds, called : {FALSE}, ret : {FALSE}]
  /\ engine = 0
  /\ session_factory = 0
  /\ bot_nickname = "Self"
  /\ include_bot_messages = TRUE
  /\ registered = FALSE
  /\ tables = 0
  /\ store = <<>>
  /\ next_id = 1
  /\ disposed = <<>>
  /\ life = [pc |-> "idle", op |-> "none", result |-> "none", log |-> "none",
             failed |-> "none", starts |-> 0]
  /\ tasks = <<>>
  /\ sessions = {}

CallShouldLogGroup ==
  /\ ~flt.called
  /\ flt' = [flt EXCEPT !.called = TRUE, !.ret = _should_log_group(flt.g)]
  /\ UNCHANGED <<cfgVars, dbVars, lifeVars, tasks, sessions>>

SpecFilter == InitFilter /\ [][CallShouldLogGroup]_vars

(* ======================= properties ======================= *)
\* number of rows of the store that invocation t added
RowsBy(t) == Cardinality({i \in 1..Len(store) : store[i].by = t})

\* a text that is empty once leading and trailing whitespace is removed
TrimmedEmpty(x) == \A i \in 1..Len(x) : x[i] \in Whitespace

\* prefix followed by response text; the response text alone when there is no prefix
Concat(e) == IF e.prefix = None THEN e.text ELSE e.prefix[1] \o e.text

\* the text an event carries
EventText(e) == IF e.kind = "bot" THEN Concat(e) ELSE e.text

\* the Group Filter as the specification words it
Accepts(g, whitelist, blacklist) ==
  IF whitelist # {} /\ ToStr(g) \notin whitelist THEN FALSE
  ELSE IF ToStr(g) \in blacklist THEN FALSE
  ELSE TRUE

GroupScoped(e) == IF e.kind = "bot" THEN e.launcher_type = "group" ELSE e.isGroupMessage

\* the invocation's event passes every gate: scope, Group Filter, text, bot toggle
PassesGates(k) ==
  /\ GroupScoped(k.ev)
  /\ Accepts(k.ev.launcher_id, k.snap.whitelist, k.snap.blacklist)
  /\ ~TrimmedEmpty(EventText(k.ev))
  /\ k.ev.kind = "bot" => k.snap.include

TaskIds == 1..Len(tasks)

\* C1: no event adds more than one row, and an event that passes every gate and whose
\* commit succeeds has added exactly one; the store holds no other rows.
C1_ExactlyOnce ==
  /\ \A t \in TaskIds :
       /\ RowsBy(t) <= 1
       /\ (PassesGates(tasks[t]) /\ tasks[t].commit = "ok") => RowsBy(t) = 1
  /\ \A i \in 1..Len(store) : store[i].by \in TaskIds

C1_Witness ==
  \E t, u \in TaskIds :
    /\ t # u
    /\ tasks[t].ev.kind = "in" /\ tasks[u].ev.kind = "bot"
    /\ \A k \in {t, u} : /\ PassesGates(tasks[k])
                         /\ tasks[k].commit = "ok"
                         /\ tasks[k].pc = "done"
                         /\ RowsBy(k) = 1

\* C2: _should_log_group returns false when the whitelist is non-empty and str(g) is not
\* in it, otherwise false when str(g) is blacklisted, otherwise true; so it is true for
\* every g when both lists are empty, and with an empty blacklist and a non-empty
\* whitelist it is true exactly for the whitelisted groups.
C2_FilterDecision ==
  flt.called =>
    /\ flt.ret = Accepts(flt.g, group_whitelist, group_blacklist)
    /\ (group_whitelist = {} /\ group_blacklist = {}) => flt.ret
    /\ (group_whitelist # {} /\ group_blacklist = {}) =>
          (flt.ret <=> ToStr(flt.g) \in group_whitelist)

C2_Witness ==
  /\ flt.called
  /\ group_whitelist # {} /\ group_blacklist = {}
  /\ ToStr(flt.g) \notin group_whitelist
  /\ ~flt.ret

\* C3: a blacklisted group is rejected whatever the whitelist, also when whitelisted.
C3_BlacklistPrecedence ==
  (flt.called /\ ToStr(flt.g) \in group_blacklist) => ~flt.ret

C3_Witness ==
  /\ flt.called
  /\ ToStr(flt.g) \in group_blacklist
  /\ ToStr(flt.g) \in group_whitelist
  /\ ~flt.ret

\* C4: a commit the backend rejects leaves the store without a row of that invocation
\* and its handler returns normally; the writer stays usable: an event dispatched after
\* the failure that passes every gate is still handed to an initialized writer, and if
\* its commit succeeds its row is added.
C4_WriteFailureIsolation ==
  /\ \A t \in TaskIds :
       tasks[t].commit = "fail" =>
         /\ RowsBy(t) = 0
         /\ tasks[t].pc = "done" => tasks[t].outcome = "returned"
  /\ Len(store) = Cardinality({t \in TaskIds : tasks[t].commit = "ok"})
  /\ \A u \in TaskIds :
       (tasks[u].snap.afterFailure /\ PassesGates(tasks[u]) /\ ~tasks[u].ev.malformed) =>
         /\ tasks[u].appended
         /\ tasks[u].snap.initialized
         /\ tasks[u].commit = "ok" => RowsBy(u) = 1

C4_Witness ==
  \E t, u \in TaskIds :
    /\ tasks[t].commit = "fail" /\ tasks[t].pc = "done" /\ tasks[t].outcome = "returned"
    /\ tasks[u].snap.afterFailure
    /\ tasks[u].commit = "ok" /\ tasks[u].pc = "done"
    /\ Len(store) = 1 /\ store[1].by = u

\* C5: no handler invocation and no destroy call ends by raising to the host, whatever
\* the event (malformed ones included) and whatever the storage backend answers.
C5_NoPropagation ==
  /\ \A t \in TaskIds :
       /\ tasks[t].outcome # "raised"
       /\ tasks[t].pc = "done" => tasks[t].outcome = "returned"
  /\ life.op = "destroy" => life.result = "returned"

C5_Witness ==
  /\ \E t, u \in TaskIds :
       /\ tasks[t].ev.malformed /\ tasks[t].log = "error" /\ tasks[t].outcome = "returned"
       /\ tasks[u].commit = "fail" /\ tasks[u].pc = "done" /\ tasks[u].outcome = "returned"
  /\ life.op = "destroy" /\ life.log = "error" /\ life.result = "returned"

\* C6: an event whose text is empty after trimming (for a bot response: prefix followed
\* by response) adds no row and never reaches the writer; no stored row has a message
\* that is empty after trimming.
C6_EmptyNeverWritten ==
  /\ \A t \in TaskIds :
       TrimmedEmpty(EventText(tasks[t].ev)) => (RowsBy(t) = 0 /\ ~tasks[t].appended)
  /\ \A i \in 1..Len(store) : ~TrimmedEmpty(store[i].message)

C6_Witness ==
  \E t, u \in TaskIds :
    /\ tasks[t].ev.kind = "in" /\ tasks[u].ev.kind = "bot"
    /\ \A k \in {t, u} :
         /\ EventText(tasks[k].ev) # <<>>
         /\ TrimmedEmpty(EventText(tasks[k].ev))
         /\ GroupScoped(tasks[k].ev)
         /\ Accepts(tasks[k].ev.launcher_id, tasks[k].snap.whitelist, tasks[k].snap.blacklist)
         /\ tasks[k].snap.include /\ tasks[k].snap.initialized
         /\ tasks[k].pc = "done"

\* C7: with include_bot_messages false a bot-response event adds no row and never
\* reaches the writer, whatever its group, scope and text and whatever the lists hold.
C7_BotToggle ==
  \A t \in TaskIds :
    (tasks[t].ev.kind = "bot" /\ ~tasks[t].snap.include) =>
      (RowsBy(t) = 0 /\ ~tasks[t].appended /\ tasks[t].pc = "done")

C7_Witness ==
  \E t \in TaskIds :
    /\ tasks[t].ev.kind = "bot" /\ ~tasks[t].snap.include
    /\ tasks[t].ev.launcher_type = "group"
    /\ Accepts(tasks[t].ev.launcher_id, tasks[t].snap.whitelist, tasks[t].snap.blacklist)
    /\ ~TrimmedEmpty(EventText(tasks[t].ev))
    /\ tasks[t].snap.initialized /\ tables > 0
    /\ tasks[t].pc = "done"

\* C8: an event that is not group-scoped (an incoming message that is no GroupMessage,
\* a response whose launcher_type is not "group") adds no row and never reaches the
\* writer, whatever the filter configuration and the text.
C8_GroupScopeOnly ==
  \A t \in TaskIds :
    ~GroupScoped(tasks[t].ev) =>
      (RowsBy(t) = 0 /\ ~tasks[t].appended /\ tasks[t].pc = "done")

C8_Witness ==
  \E t, u \in TaskIds :
    /\ tasks[t].ev.kind = "in" /\ tasks[u].ev.kind = "bot"
    /\ \A k \in {t, u} :
         /\ ~GroupScoped(tasks[k].ev)
         /\ Accepts(tasks[k].ev.launcher_id, tasks[k].snap.whitelist, tasks[k].snap.blacklist)
         /\ ~TrimmedEmpty(EventText(tasks[k].ev))
         /\ tasks[k].snap.include /\ tasks[k].snap.initialized
         /\ tasks[k].pc = "done"

\* positions of the rows of a group in a store
RowsFor(rows, g) == {i \in 1..Len(rows) : rows[i].group_id = g}

Last(idx) == CHOOSE i \in idx : \A j \in idx : j <= i

\* C9: when the commit of an append succeeds, the latest row of its group carries the
\* user_id, nickname, message and group_id of the call and a generated id that no
\* earlier row has; the earlier rows are untouched.
C9_AppendRoundTrip ==
  [][\A t \in TaskIds :
       (tasks[t].pc = "commit" /\ tasks'[t].commit = "ok") =>
         LET a == tasks[t].args
             idx == RowsFor(store', a.group_id)
         IN  /\ Len(store') = Len(store) + 1
             /\ SubSeq(store', 1, Len(store)) = store
             /\ idx # {}
             /\ LET r == store'[Last(idx)]
                IN  /\ r.user_id = a.user_id
                    /\ r.nickname = a.nickname
                    /\ r.message = a.message
                    /\ r.group_id = a.group_id
                    /\ r.id \in Nat \ {0}
                    /\ \A j \in 1..Len(store) : store[j].id # r.id]_vars

C9_Witness ==
  /\ Len(store) = 2
  /\ store[1].group_id = store[2].group_id
  /\ store[1].id # store[2].id
  /\ \E t \in TaskIds :
       /\ tasks[t].commit = "ok"
       /\ store[2].by = t
       /\ store[2].user_id = tasks[t].args.user_id
       /\ store[2].message = tasks[t].args.message

\* C10: for an accepted bot response the message handed to the writer, and stored, is
\* the prefix followed by the response text (the response text alone without a prefix),
\* with the bot account id as user_id and the configured bot_nickname as nickname.
C10_BotConcatenation ==
  /\ \A t \in TaskIds :
       (tasks[t].ev.kind = "bot" /\ tasks[t].appended) =>
         /\ tasks[t].args.message = Concat(tasks[t].ev)
         /\ tasks[t].ev.prefix = None => tasks[t].args.message = tasks[t].ev.text
         /\ tasks[t].args.user_id = ToStr(BotAccountId)
         /\ tasks[t].args.nickname = Some(tasks[t].snap.bot_nickname)
  /\ \A i \in 1..Len(store) :
       tasks[store[i].by].ev.kind = "bot" =>
         /\ store[i].message = Concat(tasks[store[i].by].ev)
         /\ store[i].user_id = ToStr(BotAccountId)
         /\ store[i].nickname = Some(tasks[store[i].by].snap.bot_nickname)

C10_Witness ==
  \E i, j \in 1..Len(store) :
    /\ tasks[store[i].by].ev.kind = "bot" /\ tasks[store[j].by].ev.kind = "bot"
    /\ tasks[store[i].by].ev.prefix = Some(<<"p", " ">>)
    /\ store[i].message = <<"p", " ", " ", "a">>
    /\ store[i].nickname = Some("Bot")
    /\ tasks[store[j].by].ev.prefix = None
    /\ store[j].message = <<" ", "a">>

\* C11: an append made while the writer is not initialized opens no session and adds
\* no row, logs a warning and returns normally; the invocation never holds a session
\* or attempts a commit afterwards.
C11_UninitializedNoOp ==
  [][\A t \in 1..Len(tasks') :
       (tasks'[t].appended /\ ~tasks'[t].snap.initialized) =>
         /\ tasks'[t].pc = "done"
         /\ tasks'[t].log = "warning"
         /\ tasks'[t].outcome = "returned"
         /\ tasks'[t].commit = "none"
         /\ t \notin sessions'
         /\ \A i \in 1..Len(store') : store'[i].by # t
         /\ t > Len(tasks) => (sessions' = sessions /\ store' = store)]_vars

C11_Witness ==
  \E t \in TaskIds :
    /\ tasks[t].appended /\ ~tasks[t].snap.initialized
    /\ session_factory = 0
    /\ tasks[t].log = "warning" /\ tasks[t].outcome = "returned"
    /\ PassesGates(tasks[t])
    /\ store = <<>> /\ sessions = {}

\* C12: when a step of startup fails (handler registration, directory creation,
\* configuration read, engine or session factory construction, schema creation) the
\* initialize call logs an error and raises; an initialize call that returned normally
\* ran every step: it built this call's engine and session factory and the table exists.
C12_StartupFailureFatal ==
  /\ life.failed # "none" =>
        /\ life.op = "initialize" /\ life.pc = "idle"
        /\ life.result = "raised"
        /\ life.log = "error"
  /\ (life.op = "initialize" /\ life.result = "returned") =>
        /\ life.failed = "none"
        /\ life.log = "info"
        /\ engine = Len(disposed) /\ engine # 0
        /\ session_factory = engine
        /\ tables = 1

C12_Witness ==
  /\ life.op = "initialize" /\ life.failed = "create_all"
  /\ life.result = "raised" /\ life.log = "error"
  /\ tables = 0 /\ engine # 0

\* C13: startup is idempotent on the storage target: no step of initialize changes a
\* stored row or the id sequence, the group_msg table is created when missing and never
\* a second time, and after an initialize call that returned there is exactly one table,
\* whether or not the table or an earlier startup was there before.
C13_IdempotentStartup ==
  [][/\ store' = store
     /\ next_id' = next_id
     /\ tables' >= tables /\ tables' <= 1
     /\ (life'.op = "initialize" /\ life'.result = "returned") => tables' = 1]_vars

C13_Witness ==
  /\ life.op = "initialize" /\ life.result = "returned"
  /\ life.starts = 2
  /\ tables = 1
  /\ Len(store) = 1 /\ store[1].message = <<" ", "a">>

\* C14: every engine that initialize created is disposed by destroy exactly once: none
\* is disposed a second time, and after a destroy call whose dispose did not fail no
\* engine created so far is left undisposed.
C14_PoolDisposedExactlyOnce ==
  /\ \A p \in 1..Len(disposed) : disposed[p] <= 1
  /\ (life.op = "destroy" /\ life.log # "error") =>
        \A p \in 1..Len(disposed) : disposed[p] = 1

\* the group, sender and text an event carries for its own row
OwnGroup(e) == IF e.kind = "bot" THEN e.launcher_id ELSE e.group_id

OwnUser(e) == IF e.kind = "bot" THEN BotAccountId ELSE SenderId

\* C15: however the handlers in flight interleave, the store holds exactly one row for
\* each append whose commit succeeded and none for any other, each row carries the
\* fields of the event of its own invocation, and no step of any invocation (a failed
\* commit included) removes or alters a row that is already stored.
C15_IndependentAppends ==
  [][/\ \A t \in 1..Len(tasks') :
          LET mine == {i \in 1..Len(store') : store'[i].by = t} IN
          /\ tasks'[t].commit = "ok" => Cardinality(mine) = 1
          /\ tasks'[t].commit # "ok" => mine = {}
          /\ \A i \in mine :
               /\ store'[i].group_id = ToStr(OwnGroup(tasks'[t].ev))
               /\ store'[i].user_id = ToStr(OwnUser(tasks'[t].ev))
               /\ store'[i].message = EventText(tasks'[t].ev)
     /\ Len(store') = Cardinality({t \in 1..Len(tasks') : tasks'[t].commit = "ok"})
     /\ Len(store') >= Len(store)
     /\ SubSeq(store', 1, Len(store)) = store]_vars

\* two appends in flight at once, the later one committed while the earlier one failed
C15_Witness ==
  /\ Len(tasks) = 2
  /\ sessions = {1, 2}
  /\ tasks[1].commit = "fail"
  /\ tasks[2].commit = "ok"
  /\ tasks[1].ev # tasks[2].ev
  /\ Len(store) = 1 /\ store[1].by = 2

\* the invocations that are inside `async with self.session_factory()`
InFlight == {t \in TaskIds : tasks[t].pc \in {"commit", "close"}}

\* C16: the open sessions are exactly those of the appends in flight, one each: an
\* invocation that has returned, after a successful or a failed commit, holds none, an
\* invocation that never reached the writer never held one, and with no append in flight
\* no session is open.
C16_ScopedSession ==
  /\ sessions = InFlight
  /\ \A t \in TaskIds : tasks[t].pc = "done" => t \notin sessions
  /\ \A t \in sessions : tasks[t].appended /\ tasks[t].snap.initialized
  /\ InFlight = {} => sessions = {}
  /\ Cardinality(sessions) <= Cardinality({t \in TaskIds : tasks[t].appended})

C16_Witness ==
  /\ Len(tasks) = 2
  /\ tasks[1].pc = "done" /\ tasks[1].commit = "fail" /\ tasks[1].log = "error"
  /\ tasks[2].pc = "done" /\ tasks[2].commit = "ok"
  /\ sessions = {}

\* C17: the handlers are registered only once the engine and the session factory are
\* built and the table exists, and after an initialize call that raised, with no
\* startup having succeeded before it, no handler is registered.
C17_RegisteredAfterStartup ==
  /\ registered => (engine # 0 /\ session_factory # 0 /\ tables > 0)
  /\ (life.op = "initialize" /\ life.result = "raised" /\ life.starts = 0) =>
        ~registered

\* C18: the group_id of every stored row passes the Group Filter under the whitelist
\* and blacklist in force when its invocation was dispatched: it is not blacklisted,
\* and it is on the whitelist when the whitelist is not empty.
C18_StoredGroupPassesFilter ==
  \A i \in 1..Len(store) :
    LET k == tasks[store[i].by] IN
    /\ store[i].group_id \notin k.snap.blacklist
    /\ k.snap.whitelist # {} => store[i].group_id \in k.snap.whitelist

\* C19: after an initialize call that raised out of _init_database (engine
\* construction, session factory construction or schema creation) every append is the
\* warning no-op: it returns at once, opens no session and attempts no commit.
C19_FailedStartupUninitialized ==
  (life.op = "initialize" /\ life.result = "raised"
     /\ life.failed \in {"engine", "factory", "create_all"}) =>
    \A t \in TaskIds :
      tasks[t].appended =>
        /\ tasks[t].pc = "done"
        /\ tasks[t].log = "warning"
        /\ tasks[t].commit = "none"
        /\ t \notin sessions
====
